---- MODULE Spec2Model ----
(***************************************************************************)
(* A model of kp-container (src/src/lib.rs): get_port_from_dockerfile,     *)
(* get_credential, compress and build_image.  Each run of the model        *)
(* executes one of the four functions on an input drawn in Init; the       *)
(* variables of the other three stay at their idle values.                 *)
(***************************************************************************)
EXTENDS Integers, Sequences, FiniteSets, TLC

VARIABLES
    \* get_port_from_dockerfile
    dockerfile,     \* the parsed document: the stages of iter_stages()
    stage,          \* number of stages the outer loop has entered
    ins,            \* number of instructions the inner loop has taken
    port,           \* let mut port: u16
    portPc,         \* position in the function
    portResult,     \* Option<u16> returned
    \* get_credential
    token,          \* what get_authorization_token().send() answers
    credPc,
    parts,          \* the local `parts` (Vec<&str> after line 52)
    credResult,
    \* compress
    text,           \* the argument `dockerfile`
    clock,          \* wall-clock time of the machine
    output,         \* Vec<u8> returned by the latest call
    prevCall,       \* the call before the latest: its text, time and output
    callTime,       \* clock at the latest call
    compPc,
    \* build_image
    dockerfile_content,
    compressed,     \* the body handed to docker.build_image
    options,        \* BuildImageOptions
    image_build_stream, \* the items the daemon will yield
    consumed,       \* items pulled by .next().await
    surfaced,       \* payloads printed by println!("Response: ...")
    buildPc,
    buildResult

portVars  == <<dockerfile, stage, ins, port, portPc, portResult>>
credVars  == <<token, credPc, parts, credResult>>
compVars  == <<text, clock, output, prevCall, callTime, compPc>>
buildVars == <<dockerfile_content, compressed, options, image_build_stream,
               consumed, surfaced, buildPc, buildResult>>
vars == <<portVars, credVars, compVars, buildVars>>
notPort  == <<credVars, compVars, buildVars>>
notCred  == <<portVars, compVars, buildVars>>
notComp  == <<portVars, credVars, buildVars>>
notBuild == <<portVars, credVars, compVars>>

\* ---------------------------------------------------------------- bounds
MaxLen == 4          \* instructions in a document (FROM lines included)
MaxTokenLen == 4     \* characters of a decoded authorization token
MaxTextLen == 2      \* characters of a Dockerfile text given to compress
MaxClock == 2        \* ticks of the wall clock
MaxEvents == 3       \* items on the daemon's build stream

\* ------------------------------------------------------- generic helpers
RECURSIVE Flatten(_)
Flatten(ss) == IF ss = <<>> THEN <<>> ELSE Head(ss) \o Flatten(Tail(ss))

SeqsUpTo(S, n) == UNION { [1..k -> S] : k \in 0..n }

None == <<"None">>
Some(v) == <<"Some", v>>
Pending == <<"Pending">>

\* =====================================================================
\* get_port_from_dockerfile (lib.rs 59-92)
\* =====================================================================
U16Max == 65535

IsSpace(c) == c \in {" ", "\t"}

\* str::trim
RECURSIVE TrimStart(_)
TrimStart(s) ==
    IF s # <<>> /\ IsSpace(Head(s)) THEN TrimStart(Tail(s)) ELSE s

RECURSIVE TrimEnd(_)
TrimEnd(s) ==
    IF s # <<>> /\ IsSpace(s[Len(s)])
    THEN TrimEnd(SubSeq(s, 1, Len(s) - 1)) ELSE s

Trim(s) == TrimEnd(TrimStart(s))

Digits == {"0", "1", "2", "3", "4", "5", "6", "7", "8", "9"}

DigitVal(c) ==
    CASE c = "0" -> 0 [] c = "1" -> 1 [] c = "2" -> 2 [] c = "3" -> 3
      [] c = "4" -> 4 [] c = "5" -> 5 [] c = "6" -> 6 [] c = "7" -> 7
      [] c = "8" -> 8 [] c = "9" -> 9

ParseErr == -1

\* u16::from_str on the digits: checked multiply-add, any other character
\* or a value past u16::MAX is an Err.
RECURSIVE ParseDigits(_, _)
ParseDigits(s, acc) ==
    IF s = <<>> THEN acc
    ELSE IF Head(s) \notin Digits THEN ParseErr
    ELSE LET n == acc * 10 + DigitVal(Head(s))
         IN  IF n > U16Max THEN ParseErr ELSE ParseDigits(Tail(s), n)

\* <u16 as FromStr>::from_str: empty is an Err, one leading '+' is
\* accepted, a lone sign is an Err.
FromStrU16(s) ==
    IF s = <<>> THEN ParseErr
    ELSE LET d == IF Head(s) = "+" THEN Tail(s) ELSE s
         IN  IF d = <<>> THEN ParseErr ELSE ParseDigits(d, 0)

\* c.content.trim().parse()  (line 76).  A faulty variant forgets the trim.
ParsePortNoTrim(content) == FromStrU16(content)

ParsePort(content) == FromStrU16(Trim(content))

\* if port == 0 { None } else { Some(port) }  (lines 87-91).  A faulty
\* variant returns the port whatever it is.
PortResultNoZeroCheck(p) == Some(p)

PortResult(p) == IF p = 0 THEN None ELSE Some(p)

\* Instructions and argument components of the parsed document.
StringComponent(c) == [kind |-> "String", content |-> c]
CommentComponent == [kind |-> "Comment", content |-> <<"#">>]

From == [kind |-> "From", instruction |-> "FROM", components |-> <<>>]
Run == [kind |-> "Run", instruction |-> "RUN", components |-> <<>>]
Misc(name, comps) ==
    [kind |-> "Misc", instruction |-> name, components |-> comps]

\* The argument texts the documents of the model use.
Literals ==
    { <<" ", "8", "0", "8", "0">>,
      <<" ", "9", "0", "9", "0">>,
      <<" ", "0">>,
      <<" ", "6", "5", "5", "3", "5">>,
      <<" ", "6", "5", "5", "3", "6">>,
      <<" ", "8", "0", "/", "t", "c", "p">> }

Instructions ==
    { From, Run, Misc("VOLUME", <<StringComponent(<<" ", "/", "d">>)>>),
      Misc("EXPOSE", <<>>),
      Misc("EXPOSE", <<CommentComponent,
                       StringComponent(<<"8", "0", "8", "0">>)>>) }
    \cup { Misc("EXPOSE", <<StringComponent(c)>>) : c \in Literals }

\* Dockerfile::iter_stages: every FROM opens a stage, which holds the FROM
\* and the instructions up to the next FROM.
RECURSIVE Stages(_)
Stages(flat) ==
    IF flat = <<>> THEN <<>>
    ELSE LET rest == Stages(SubSeq(flat, 1, Len(flat) - 1))
             last == flat[Len(flat)]
         IN  IF last.kind = "From" \/ rest = <<>>
             THEN Append(rest, <<last>>)
             ELSE [rest EXCEPT ![Len(rest)] = Append(@, last)]

Documents ==
    { Stages(f) : f \in { g \in SeqsUpTo(Instructions, MaxLen) :
                            g = <<>> \/ g[1] = From } }

PortIdle ==
    /\ dockerfile = <<>> /\ stage = 0 /\ ins = 0 /\ port = 0
    /\ portPc = "idle" /\ portResult = Pending

InitPort ==
    /\ dockerfile \in Documents
    /\ stage = 0 /\ ins = 0 /\ port = 0
    /\ portPc = "stages" /\ portResult = Pending

CurIns == dockerfile[stage][ins + 1]

AtInstruction ==
    /\ portPc = "instructions"
    /\ ins < Len(dockerfile[stage])

\* for stage in dockerfile.iter_stages()  (line 63): the next stage
NextStage ==
    /\ portPc = "stages"
    /\ stage < Len(dockerfile)
    /\ stage' = stage + 1
    /\ ins' = 0
    /\ portPc' = "instructions"
    /\ UNCHANGED <<dockerfile, port, portResult, notPort>>

\* line 63: the stages are exhausted
StagesDone ==
    /\ portPc = "stages"
    /\ stage = Len(dockerfile)
    /\ portPc' = "return"
    /\ UNCHANGED <<dockerfile, stage, ins, port, portResult, notPort>>

\* line 69: the instructions of the stage are exhausted
InstructionsDone ==
    /\ portPc = "instructions"
    /\ ins = Len(dockerfile[stage])
    /\ portPc' = "stages"
    /\ UNCHANGED <<dockerfile, stage, ins, port, portResult, notPort>>

\* line 83: _ => {}
InsNotMisc ==
    /\ AtInstruction
    /\ CurIns.kind # "Misc"
    /\ ins' = ins + 1
    /\ UNCHANGED <<dockerfile, stage, port, portPc, portResult, notPort>>

\* line 72: a Misc instruction that is not EXPOSE
InsMiscOther ==
    /\ AtInstruction
    /\ CurIns.kind = "Misc"
    /\ CurIns.instruction # "EXPOSE"
    /\ ins' = ins + 1
    /\ UNCHANGED <<dockerfile, stage, port, portPc, portResult, notPort>>

IsExposeAt ==
    /\ AtInstruction
    /\ CurIns.kind = "Misc"
    /\ CurIns.instruction = "EXPOSE"

\* line 73: components.get(0).unwrap() on an EXPOSE without arguments
ExposeNoArgument ==
    /\ IsExposeAt
    /\ CurIns.components = <<>>
    /\ portPc' = "panic"
    /\ UNCHANGED <<dockerfile, stage, ins, port, portResult, notPort>>

\* lines 74-78: the first component is a String that parses: set the port
\* and break out of the instruction loop
ExposeLiteral ==
    /\ IsExposeAt
    /\ CurIns.components # <<>>
    /\ CurIns.components[1].kind = "String"
    /\ ParsePort(CurIns.components[1].content) # ParseErr
    /\ port' = ParsePort(CurIns.components[1].content)
    /\ portPc' = "stages"
    /\ UNCHANGED <<dockerfile, stage, ins, portResult, notPort>>

\* line 76: parse().unwrap() on a String that is no u16
ExposeUnparsable ==
    /\ IsExposeAt
    /\ CurIns.components # <<>>
    /\ CurIns.components[1].kind = "String"
    /\ ParsePort(CurIns.components[1].content) = ParseErr
    /\ portPc' = "panic"
    /\ UNCHANGED <<dockerfile, stage, ins, port, portResult, notPort>>

\* A faulty variant treats a non-String first component like a match: it leaves
\* the instruction loop.
ExposeNonLiteralBreaks ==
    /\ IsExposeAt
    /\ CurIns.components # <<>>
    /\ CurIns.components[1].kind # "String"
    /\ portPc' = "stages"
    /\ UNCHANGED <<dockerfile, stage, ins, port, portResult, notPort>>

\* line 79: _ => {} : the first component is not a String
ExposeNonLiteral ==
    /\ IsExposeAt
    /\ CurIns.components # <<>>
    /\ CurIns.components[1].kind # "String"
    /\ ins' = ins + 1
    /\ UNCHANGED <<dockerfile, stage, port, portPc, portResult, notPort>>

\* lines 87-91
ReturnPort ==
    /\ portPc = "return"
    /\ portResult' = PortResult(port)
    /\ portPc' = "done"
    /\ UNCHANGED <<dockerfile, stage, ins, port, notPort>>

\* =====================================================================
\* get_credential (lib.rs 31-57)
\* =====================================================================
\* The answer of the token endpoint.  An authorization token is base64
\* text; the model keeps, for each token, whether it is valid base64,
\* whether the decoded bytes are UTF-8, and the decoded text.
TokenChars == {"u", "p", ":"}

DecodedTexts == SeqsUpTo(TokenChars, MaxTokenLen)

AuthorizationData(present, b64, utf8, decoded) ==
    [authorization_token |-> present, base64 |-> b64, utf8 |-> utf8,
     decoded |-> decoded]

Answers ==
    { [send |-> "Err", authorization_data |-> <<>>],
      [send |-> "Ok", authorization_data |-> <<>>],
      [send |-> "Ok", authorization_data |->
          <<AuthorizationData(FALSE, FALSE, FALSE, <<>>)>>],
      [send |-> "Ok", authorization_data |->
          <<AuthorizationData(TRUE, FALSE, FALSE, <<>>)>>],
      [send |-> "Ok", authorization_data |->
          <<AuthorizationData(TRUE, TRUE, FALSE, <<>>)>>] }
    \cup { [send |-> "Ok", authorization_data |->
              <<AuthorizationData(TRUE, TRUE, TRUE, d)>>] : d \in DecodedTexts }

\* str::split(':').collect(): the pieces between the separators, an empty
\* text giving one empty piece.
RECURSIVE Split(_, _)
Split(s, sep) ==
    IF s = <<>> THEN << <<>> >>
    ELSE LET r == Split(Tail(s), sep)
         IN  IF Head(s) = sep THEN << <<>> >> \o r
             ELSE << <<Head(s)>> \o r[1] >> \o Tail(r)

CredIdle ==
    /\ token = [send |-> "Err", authorization_data |-> <<>>]
    /\ credPc = "idle" /\ parts = <<>> /\ credResult = Pending

InitCred ==
    /\ token \in Answers
    /\ credPc = "send" /\ parts = <<>> /\ credResult = Pending

CredPanic ==
    /\ credPc' = "panic"
    /\ UNCHANGED <<token, parts, credResult, notCred>>

CredGoto(pc) ==
    /\ credPc' = pc
    /\ UNCHANGED <<token, parts, credResult, notCred>>

\* line 47: client.get_authorization_token().send().await.unwrap()
SendToken ==
    /\ credPc = "send"
    /\ IF token.send = "Ok" THEN CredGoto("authorization") ELSE CredPanic

\* lines 48-49: token.authorization_data()[0].authorization_token().unwrap()
TakeAuthorization ==
    /\ credPc = "authorization"
    /\ IF /\ token.authorization_data # <<>>
          /\ token.authorization_data[1].authorization_token
       THEN CredGoto("decode") ELSE CredPanic

\* line 50: BASE64_STANDARD.decode(..).unwrap()
DecodeBase64 ==
    /\ credPc = "decode"
    /\ IF token.authorization_data[1].base64
       THEN CredGoto("utf8") ELSE CredPanic

\* lines 51-52: String::from_utf8(data).unwrap(), then split(':')
SplitParts ==
    /\ credPc = "utf8"
    /\ IF token.authorization_data[1].utf8
       THEN /\ parts' = Split(token.authorization_data[1].decoded, ":")
            /\ credPc' = "pair"
            /\ UNCHANGED <<token, credResult, notCred>>
       ELSE CredPanic

\* line 56: (parts[0].to_string(), parts[1].to_string()); an index past
\* the end of the Vec panics
ReturnPair ==
    /\ credPc = "pair"
    /\ IF Len(parts) >= 2
       THEN /\ credResult' = <<"Ok", parts[1], parts[2]>>
            /\ credPc' = "done"
            /\ UNCHANGED <<token, parts, notCred>>
       ELSE CredPanic

\* =====================================================================
\* compress (lib.rs 94-110)
\* =====================================================================
BlockSize == 512

Zeros(n) == [i \in 1..n |-> 0]

\* `field` written into `bytes` from 0-based offset `off`
Put(bytes, off, field) ==
    [i \in 1..Len(bytes) |->
        IF off < i /\ i <= off + Len(field) THEN field[i - off] ELSE bytes[i]]

RECURSIVE SumRange(_, _, _)
SumRange(s, lo, hi) ==
    IF lo > hi THEN 0
    ELSE IF lo = hi THEN s[lo]
    ELSE LET mid == (lo + hi) \div 2
         IN  SumRange(s, lo, mid) + SumRange(s, mid + 1, hi)

RECURSIVE Pow8(_)
Pow8(k) == IF k = 0 THEN 1 ELSE 8 * Pow8(k - 1)

\* A numeric header field: width-1 octal digits in ASCII and a NUL.
OctalField(n, width) ==
    [i \in 1..width |->
        IF i = width THEN 0 ELSE 48 + ((n \div Pow8(width - 1 - i)) % 8)]

\* The Dockerfile text is a string of characters; as_bytes() and len()
\* see its UTF-8 encoding.
TextChars == {"F", "e_acute"}

Utf8(c) == IF c = "F" THEN <<70>> ELSE <<195, 169>>

AsBytes(t) == Flatten([i \in 1..Len(t) |-> Utf8(t[i])])

\* dockerfile.len() as u64 (line 97): the length in bytes.  A faulty
\* variant counts characters.
CharCount(t) == Len(t)

ByteLen(t) == Len(AsBytes(t))

Texts == SeqsUpTo(TextChars, MaxTextLen)

\* "Dockerfile" and the GNU magic "ustar " with version " \0", in ASCII
PathDockerfile == <<68, 111, 99, 107, 101, 114, 102, 105, 108, 101>>
GnuMagic == <<117, 115, 116, 97, 114, 32, 32, 0>>

\* tar::Header::new_gnu() (line 95): a zeroed block with the GNU magic and
\* the modification time set to 0.  A faulty variant stamps the clock.
NewGnuWallClock ==
    Put(Put(Zeros(BlockSize), 257, GnuMagic), 136, OctalField(clock, 12))

NewGnu ==
    Put(Put(Zeros(BlockSize), 257, GnuMagic), 136, OctalField(0, 12))

\* header.set_path / set_size / set_mode (lines 96-98)
SetPath(h, path) == Put(h, 0, path)
SetSize(h, n) == Put(h, 124, OctalField(n, 12))
SetMode(h, m) == Put(h, 100, OctalField(m, 8))

\* header.set_cksum() (line 99): the sum of the header's bytes, the
\* checksum field itself counted as eight spaces.
HeaderSum(h) == SumRange(h, 1, 148) + 8 * 32 + SumRange(h, 157, BlockSize)
SetCksum(h) == Put(h, 148, OctalField(HeaderSum(h), 8))

\* lines 95-99; 0o755 = 493
Header(t) ==
    SetCksum(SetMode(SetSize(SetPath(NewGnu, PathDockerfile), ByteLen(t)),
                     493))

\* tar.append(&header, data) (line 101): the header block, the data, and
\* zeros up to the next block boundary
TarAppend(archive, h, data) ==
    archive \o h \o data
        \o Zeros((BlockSize - (Len(data) % BlockSize)) % BlockSize)

\* tar.into_inner() (line 103) finishes the archive with two zero blocks
IntoInner(archive) == archive \o Zeros(2 * BlockSize)

\* The DEFLATE stream is modelled by a run-length code: the list of
\* <<byte, run>> pairs of the input.
RECURSIVE Deflate(_, _, _)
Deflate(s, lo, hi) ==
    IF lo > hi THEN <<>>
    ELSE IF lo = hi THEN << <<s[lo], 1>> >>
    ELSE LET mid == (lo + hi) \div 2
             l == Deflate(s, lo, mid)
             r == Deflate(s, mid + 1, hi)
         IN  IF l[Len(l)][1] = r[1][1]
             THEN SubSeq(l, 1, Len(l) - 1)
                    \o << <<r[1][1], l[Len(l)][2] + r[1][2]>> >>
                    \o Tail(r)
             ELSE l \o r

\* The CRC-32 of the gzip trailer is modelled by the sum of the bytes
\* (below 2^32 for every archive of the model).
Crc32(s) == SumRange(s, 1, Len(s))

\* GzEncoder::new(.., Compression::default()), write_all, finish (lines
\* 104-109): the fixed ten-byte member header (magic, method 8, no flags,
\* mtime 0, xfl 0, os 255), the deflate stream, CRC-32 and ISIZE (the
\* input length mod 2^32, which is the length for the archives here).
GzEncode(s) ==
    [header |-> <<31, 139, 8, 0, 0, 0, 0, 0, 0, 255>>,
     deflate |-> Deflate(s, 1, Len(s)),
     crc32 |-> Crc32(s),
     isize |-> Len(s)]

Compress(t) == GzEncode(IntoInner(TarAppend(<<>>, Header(t), AsBytes(t))))

NoCall == [made |-> FALSE, text |-> <<>>, time |-> 0, output |-> <<>>]

CompIdle ==
    /\ text = <<>> /\ clock = 0 /\ output = <<>> /\ prevCall = NoCall
    /\ callTime = 0 /\ compPc = "idle"

InitComp ==
    /\ text \in Texts
    /\ clock = 0 /\ output = <<>> /\ prevCall = NoCall
    /\ callTime = 0 /\ compPc = "call"

\* time passes between and before the calls
Tick ==
    /\ compPc # "idle"
    /\ clock < MaxClock
    /\ clock' = clock + 1
    /\ UNCHANGED <<text, output, prevCall, callTime, compPc, notComp>>

\* compress(dockerfile)
CompressCall ==
    /\ compPc = "call"
    /\ output' = Compress(text)
    /\ callTime' = clock
    /\ compPc' = "done"
    /\ UNCHANGED <<text, clock, prevCall, notComp>>

\* a second call, with any text
CompressAgain ==
    /\ compPc = "done"
    /\ ~prevCall.made
    /\ prevCall' = [made |-> TRUE, text |-> text, time |-> callTime,
                    output |-> output]
    /\ text' \in Texts
    /\ compPc' = "call"
    /\ UNCHANGED <<clock, output, callTime, notComp>>

\* =====================================================================
\* build_options, build_image (lib.rs 112-141)
\* =====================================================================
\* lines 112-121
build_options(id) ==
    [t |-> id, dockerfile |-> "Dockerfile", version |-> "BuilderBuildKit",
     pull |-> TRUE, session |-> Some(id)]

\* The items of the daemon's stream: Ok(BuildInfo) with a BuildKit aux
\* payload, Ok(BuildInfo) with the other aux variant, Ok(BuildInfo) that is
\* a plain log line (aux: None), and Err(e) for a failure the daemon
\* reports.
Payloads == {"vertex1", "vertex2"}

BuildKitItem(p) == [result |-> "Ok", aux |-> "BuildKit", payload |-> p]
DefaultAuxItem == [result |-> "Ok", aux |-> "Default", payload |-> "image"]
LogItem == [result |-> "Ok", aux |-> "None", payload |-> "log line"]
ErrItem == [result |-> "Err", aux |-> "None", payload |-> "build failed"]

Items == { BuildKitItem(p) : p \in Payloads }
           \cup {DefaultAuxItem, LogItem, ErrItem}

BuildTexts == SeqsUpTo(TextChars, 1)

BuildIdle ==
    /\ dockerfile_content = <<>> /\ compressed = <<>> /\ options = <<>>
    /\ image_build_stream = <<>> /\ consumed = 0 /\ surfaced = <<>>
    /\ buildPc = "idle" /\ buildResult = Pending

InitBuild ==
    /\ dockerfile_content \in BuildTexts
    /\ image_build_stream \in SeqsUpTo(Items, MaxEvents)
    /\ compressed = <<>> /\ options = <<>>
    /\ consumed = 0 /\ surfaced = <<>>
    /\ buildPc = "submit" /\ buildResult = Pending

\* lines 128-132: compress the text, build the options, open the stream
Submit ==
    /\ buildPc = "submit"
    /\ compressed' = Compress(dockerfile_content)
    /\ options' = build_options("myimage")
    /\ buildPc' = "stream"
    /\ UNCHANGED <<dockerfile_content, image_build_stream, consumed,
                   surfaced, buildResult, notBuild>>

\* the pattern of the while let (lines 134-136)
Matches(item) == item.result = "Ok" /\ item.aux = "BuildKit"

\* lines 134-140: the next item matches the pattern: print it, loop
SurfaceAux ==
    /\ buildPc = "stream"
    /\ consumed < Len(image_build_stream)
    /\ Matches(image_build_stream[consumed + 1])
    /\ consumed' = consumed + 1
    /\ surfaced' = Append(surfaced, image_build_stream[consumed + 1].payload)
    /\ UNCHANGED <<dockerfile_content, compressed, options,
                   image_build_stream, buildPc, buildResult, notBuild>>

\* line 137: the next item does not match: the loop and the function end
StopOnOther ==
    /\ buildPc = "stream"
    /\ consumed < Len(image_build_stream)
    /\ ~Matches(image_build_stream[consumed + 1])
    /\ consumed' = consumed + 1
    /\ buildPc' = "done"
    /\ buildResult' = <<"()">>
    /\ UNCHANGED <<dockerfile_content, compressed, options,
                   image_build_stream, surfaced, notBuild>>

\* line 137: next() is None: the stream ended
StopOnEnd ==
    /\ buildPc = "stream"
    /\ consumed = Len(image_build_stream)
    /\ buildPc' = "done"
    /\ buildResult' = <<"()">>
    /\ UNCHANGED <<dockerfile_content, compressed, options,
                   image_build_stream, consumed, surfaced, notBuild>>

\* =====================================================================
\* The specification
\* =====================================================================
Init ==
    \/ InitPort /\ CredIdle /\ CompIdle /\ BuildIdle
    \/ PortIdle /\ InitCred /\ CompIdle /\ BuildIdle
    \/ PortIdle /\ CredIdle /\ InitComp /\ BuildIdle
    \/ PortIdle /\ CredIdle /\ CompIdle /\ InitBuild

Next ==
    \/ NextStage \/ StagesDone \/ InstructionsDone
    \/ InsNotMisc \/ InsMiscOther
    \/ ExposeNoArgument \/ ExposeLiteral \/ ExposeUnparsable
    \/ ExposeNonLiteral
    \/ ReturnPort
    \/ SendToken \/ TakeAuthorization \/ DecodeBase64 \/ SplitParts
    \/ ReturnPair
    \/ Tick \/ CompressCall \/ CompressAgain
    \/ Submit \/ SurfaceAux \/ StopOnOther \/ StopOnEnd

Spec == Init /\ [][Next]_vars

\* =====================================================================
\* Properties of get_port_from_dockerfile
\* =====================================================================
\* Reading a document: positions <<stage, instruction>>, document order,
\* and the number an EXPOSE argument denotes (read independently of the
\* code's parser: the decimal value of the text without its blanks, -1
\* when it is no decimal numeral).
Positions ==
    UNION { { <<i, j>> : j \in 1..Len(dockerfile[i]) } :
            i \in 1..Len(dockerfile) }

Before(p, q) == p[1] < q[1] \/ (p[1] = q[1] /\ p[2] < q[2])

InsAt(p) == dockerfile[p[1]][p[2]]

IsExpose(p) == InsAt(p).kind = "Misc" /\ InsAt(p).instruction = "EXPOSE"

IsLiteralExpose(p) ==
    /\ IsExpose(p)
    /\ InsAt(p).components # <<>>
    /\ InsAt(p).components[1].kind = "String"

IsNonLiteralExpose(p) ==
    /\ IsExpose(p)
    /\ InsAt(p).components # <<>>
    /\ InsAt(p).components[1].kind # "String"

RECURSIVE Numeral(_, _)
Numeral(s, acc) ==
    IF s = <<>> THEN acc
    ELSE IF Head(s) \notin Digits THEN -1
    ELSE Numeral(Tail(s), 10 * acc + DigitVal(Head(s)))

Denotes(content) ==
    LET d == SelectSeq(content, LAMBDA c : c # " ")
    IN  IF d = <<>> THEN -1 ELSE Numeral(d, 0)

ExposedNumber(p) == Denotes(InsAt(p).components[1].content)

Exposes(p, n) == IsLiteralExpose(p) /\ ExposedNumber(p) = n

FirstExpose(p) ==
    IsExpose(p) /\ \A q \in Positions : IsExpose(q) => ~Before(q, p)

OnlyExpose(p) ==
    IsExpose(p) /\ \A q \in Positions : IsExpose(q) => q = p

PortFinished == portPc \in {"done", "panic"}

\* C1: when the first EXPOSE of a document is `EXPOSE P` and a later stage
\* holds `EXPOSE Q`, P and Q two different ports, the function returns
\* Some(P).
C1_FirstOccurrenceWins ==
    portPc = "done" =>
        \A p, q \in Positions :
            ( /\ FirstExpose(p) /\ IsLiteralExpose(p)
              /\ p[1] < q[1] /\ IsLiteralExpose(q)
              /\ ExposedNumber(p) \in 1..U16Max
              /\ ExposedNumber(q) \in 1..U16Max
              /\ ExposedNumber(p) # ExposedNumber(q) )
            => portResult = Some(ExposedNumber(p))

\* C2 as stated: a document whose only EXPOSE is `EXPOSE N`, N any positive
\* integer literal, makes the function return Some(N).
C2_SingleExposeAnyNumber ==
    PortFinished =>
        \A p \in Positions :
            (OnlyExpose(p) /\ IsLiteralExpose(p) /\ ExposedNumber(p) > 0)
            => (portPc = "done" /\ portResult = Some(ExposedNumber(p)))

\* C2 amended: a document whose only EXPOSE is `EXPOSE N`, N a positive
\* integer literal that fits a port number (N <= 65535), makes the
\* function return Some(N), in whichever stage and position it stands.
C2_SingleExposePort ==
    PortFinished =>
        \A p \in Positions :
            ( /\ OnlyExpose(p) /\ IsLiteralExpose(p)
              /\ ExposedNumber(p) \in 1..U16Max )
            => (portPc = "done" /\ portResult = Some(ExposedNumber(p)))

\* C2 witness: the function has returned for a document whose single
\* EXPOSE, of a port, stands in the second stage before another
\* instruction.
C2_Witness ==
    /\ portPc = "done"
    /\ \E p \in Positions :
        /\ OnlyExpose(p) /\ IsLiteralExpose(p)
        /\ ExposedNumber(p) \in 1..U16Max
        /\ p[1] = 2 /\ p[2] < Len(dockerfile[2])

\* C3 as stated: a document that contains `EXPOSE 0` makes the function
\* return None, whatever else it contains.
C3_ExposeZeroAnywhere ==
    portPc = "done" =>
        ((\E p \in Positions : Exposes(p, 0)) => portResult = None)

\* C3 amended: a document that contains `EXPOSE 0` and no EXPOSE with
\* another argument makes the function return None, whatever its other
\* instructions and stages.
C3_ExposeZeroOnly ==
    PortFinished =>
        ( ( /\ \E p \in Positions : Exposes(p, 0)
            /\ \A q \in Positions : IsExpose(q) => Exposes(q, 0) )
          => (portPc = "done" /\ portResult = None) )

\* C3 witness: the function has returned for a two-stage document whose
\* EXPOSE instructions are all `EXPOSE 0`.
C3_Witness ==
    /\ portPc = "done"
    /\ Len(dockerfile) = 2
    /\ \E p \in Positions : Exposes(p, 0)
    /\ \A q \in Positions : IsExpose(q) => Exposes(q, 0)

\* C10: when the first EXPOSE of a document has a first component that is
\* not a literal string, the scan goes past it without failing: if one
\* EXPOSE with a literal port N follows, in the same or a later stage, the
\* function returns Some(N); if every EXPOSE of the document is
\* non-literal it returns None.
C10_NonLiteralSkipped ==
    PortFinished =>
        LET lit == { q \in Positions : IsLiteralExpose(q) }
        IN  ( /\ \E p \in Positions : FirstExpose(p) /\ IsNonLiteralExpose(p)
              /\ \A q \in Positions :
                    IsExpose(q) => IsNonLiteralExpose(q) \/ q \in lit
              /\ Cardinality(lit) <= 1
              /\ \A q \in lit : ExposedNumber(q) \in 1..U16Max )
            => /\ portPc = "done"
               /\ lit = {} => portResult = None
               /\ \A q \in lit : portResult = Some(ExposedNumber(q))

\* C10 witness: the function has returned Some(N) for a document whose
\* first EXPOSE is non-literal and whose one literal EXPOSE follows in a
\* later stage.
C10_Witness ==
    /\ portPc = "done"
    /\ \E p, q \in Positions :
        /\ FirstExpose(p) /\ IsNonLiteralExpose(p)
        /\ IsLiteralExpose(q) /\ p[1] < q[1]
        /\ \A r \in Positions : IsLiteralExpose(r) => r = q
        /\ ExposedNumber(q) \in 1..U16Max
        /\ portResult = Some(ExposedNumber(q))

\* =====================================================================
\* Properties of get_credential
\* =====================================================================
Decodable ==
    /\ token.send = "Ok"
    /\ token.authorization_data # <<>>
    /\ token.authorization_data[1].authorization_token
    /\ token.authorization_data[1].base64
    /\ token.authorization_data[1].utf8

Decoded == token.authorization_data[1].decoded

HasColon(d) == \E i \in 1..Len(d) : d[i] = ":"

FirstColon(d) ==
    CHOOSE i \in 1..Len(d) : d[i] = ":" /\ \A j \in 1..(i - 1) : d[j] # ":"

CredFinished == credPc \in {"done", "panic"}

\* C4: a token that decodes to u:p, split at its first colon, yields
\* (u, p) with p whole, colons included.
C4_SplitOnFirstColon ==
    (CredFinished /\ Decodable /\ HasColon(Decoded)) =>
        /\ credPc = "done"
        /\ credResult =
              <<"Ok", SubSeq(Decoded, 1, FirstColon(Decoded) - 1),
                SubSeq(Decoded, FirstColon(Decoded) + 1, Len(Decoded))>>

\* C5: a token that decodes to a text without a colon ends the call in a
\* CredentialError returned to the caller, not in a panic and not in a
\* partial result.
C5_NoColonTypedError ==
    (CredFinished /\ Decodable /\ ~HasColon(Decoded)) =>
        /\ credPc = "done"
        /\ credResult = <<"Err", "CredentialError">>

\* =====================================================================
\* Properties of build_image
\* =====================================================================
BuildKitPayloads(items) ==
    LET kept == SelectSeq(items, LAMBDA e : e.aux = "BuildKit")
    IN  [i \in 1..Len(kept) |-> kept[i].payload]

HasErr(items) == \E i \in 1..Len(items) : items[i].result = "Err"

FirstErr(items) ==
    CHOOSE i \in 1..Len(items) :
        items[i].result = "Err" /\ \A j \in 1..(i - 1) : items[j].result # "Err"

BeforeFailure(items) ==
    IF HasErr(items) THEN SubSeq(items, 1, FirstErr(items) - 1) ELSE items

\* C6: on a stream of log lines, BuildKit aux events and daemon errors,
\* the log lines are dropped and every aux event that arrives before the
\* end of the stream or the first daemon error is surfaced, in order.
C6_EveryAuxBeforeEndSurfaced ==
    ( /\ buildPc = "done"
      /\ \A i \in 1..Len(image_build_stream) :
            image_build_stream[i].aux # "Default" )
    => surfaced = BuildKitPayloads(BeforeFailure(image_build_stream))

\* C7: when the daemon reports a failure, the call ends in a BuildError
\* that carries the daemon's text, and nothing is consumed after the
\* failure.
C7_FailureSurfaced ==
    (buildPc = "done" /\ HasErr(image_build_stream)) =>
        /\ buildResult =
              <<"BuildError",
                image_build_stream[FirstErr(image_build_stream)].payload>>
        /\ consumed <= FirstErr(image_build_stream)

\* =====================================================================
\* Properties of compress
\* =====================================================================
\* A reader of the output: gunzip (header, inflate, trailer checks), then
\* the entries of the tar archive up to the first zero block.
RECURSIVE Inflate(_)
Inflate(runs) ==
    IF runs = <<>> THEN <<>>
    ELSE [i \in 1..runs[1][2] |-> runs[1][1]] \o Inflate(Tail(runs))

Corrupt == <<-1>>

Gunzip(gz) ==
    IF SubSeq(gz.header, 1, 3) # <<31, 139, 8>> THEN Corrupt
    ELSE LET s == Inflate(gz.deflate)
         IN  IF Crc32(s) = gz.crc32 /\ Len(s) = gz.isize THEN s ELSE Corrupt

RECURSIVE ParseOctal(_, _)
ParseOctal(field, acc) ==
    IF field = <<>> \/ Head(field) \notin 48..55 THEN acc
    ELSE ParseOctal(Tail(field), 8 * acc + (Head(field) - 48))

CStr(field) ==
    LET nuls == { i \in 1..Len(field) : field[i] = 0 }
    IN  IF nuls = {} THEN field
        ELSE SubSeq(field, 1, (CHOOSE i \in nuls : \A j \in nuls : i <= j) - 1)

RECURSIVE ReadEntries(_, _)
ReadEntries(bytes, off) ==
    IF off + BlockSize > Len(bytes) THEN <<>>
    ELSE LET h == SubSeq(bytes, off + 1, off + BlockSize)
         IN  IF h = Zeros(BlockSize) THEN <<>>
             ELSE LET size == ParseOctal(SubSeq(h, 125, 136), 0)
                      last == off + BlockSize + size
                      blocks == (size + BlockSize - 1) \div BlockSize
                  IN  << [name |-> CStr(SubSeq(h, 1, 100)),
                          size |-> size,
                          mtime |-> ParseOctal(SubSeq(h, 137, 148), 0),
                          cksum_ok |->
                              ParseOctal(SubSeq(h, 149, 156), 0) = HeaderSum(h),
                          content |->
                              SubSeq(bytes, off + BlockSize + 1,
                                     IF last <= Len(bytes) THEN last
                                     ELSE Len(bytes))] >>
                      \o ReadEntries(bytes, off + BlockSize * (1 + blocks))

Entries(gz) ==
    LET s == Gunzip(gz) IN IF s = Corrupt THEN <<>> ELSE ReadEntries(s, 0)

\* C8: decompressing the result of compress(text) gives an archive of
\* exactly one entry, named Dockerfile, whose size field is the byte
\* length of the text and whose content is the bytes of the text.
C8_RoundTrip ==
    compPc = "done" =>
        LET es == Entries(output)
        IN  /\ Len(es) = 1
            /\ es[1].name = PathDockerfile
            /\ es[1].cksum_ok
            /\ es[1].size = Len(AsBytes(text))
            /\ es[1].content = AsBytes(text)

\* C8 witness: compress has returned for a text with a character of more
\* than one byte.
C8_Witness ==
    /\ compPc = "done"
    /\ Len(text) = 2
    /\ Len(AsBytes(text)) > Len(text)

\* C9: the entry's modification time is 0 whatever the clock reads, and
\* two calls with the same text made at different times return the same
\* bytes.
C9_Deterministic ==
    compPc = "done" =>
        /\ Entries(output)[1].mtime = 0
        /\ (prevCall.made /\ prevCall.text = text)
              => output = prevCall.output

\* C9 witness: a second call has returned, for the text of the first and
\* at a later time.
C9_Witness ==
    /\ compPc = "done"
    /\ prevCall.made
    /\ prevCall.text = text
    /\ text # <<>>
    /\ prevCall.time < callTime

====
